---- MODULE Spec2Model ----
(***************************************************************************)
(* Scatter4: Scripts/data_gen.py (synthetic medical-charge generator) and  *)
(* Scripts/viz.py (static dashboard builder).                              *)
(*                                                                         *)
(* Both scripts are straight-line programs.  Each is modelled as a state   *)
(* machine whose program counter walks the script top to bottom:           *)
(*   Spec    - one run of viz.py                                           *)
(*   SpecGen - one run of data_gen.py                                      *)
(* Column names are sequences of one-character strings, so that           *)
(* str.lower(), the substring test and re.fullmatch are computed.          *)
(***************************************************************************)
EXTENDS Integers, Sequences, FiniteSets, TLC

VARIABLES
    \* ---- viz.py: the environment of one run
    argv,          \* sys.argv[1:], as the set of arguments present
    isMain,        \* __name__ == "__main__"
    figuresCfg,    \* CFG["figures"]
    fileCharges,   \* data/charges.csv on disk: [exists, cols, rows]
    fileLoc,       \* data/provider_locations.csv on disk
    fileKpi,       \* data/kpi.json on disk: missing, not JSON, or a JSON value
    \* ---- viz.py: program state
    pc,            \* position in the script
    exitMsg,       \* message of sys.exit / kind of the uncaught exception
    charges,       \* DataFrame charges
    loc,           \* DataFrame loc
    df,            \* DataFrame df (merged)
    figs,          \* list figs of (figure, takes_full_width)
    KPI_DIV,       \* the KPI card, or EmptyStr for ""
    cards_html,    \* list cards_html
    htmlFile,      \* outputs/golden_image.html: [written, cards]
    pngFile,       \* outputs/golden_image.png written
    pngTried,      \* save_png was entered
    pngError,      \* step of save_png that raised, "" when none
    drv,           \* the Chrome driver process: "none", "running", "quit"
    warnings,      \* warnings printed by save_png
    browserOpened, \* webbrowser.open was called
    \* ---- data_gen.py
    gpc,           \* position in data_gen.py
    nCities,       \* len(CFG["cities"])
    nMonths,       \* CFG["n_months"]
    providers,     \* list providers
    prov_id,       \* counter prov_id
    cityIdx,       \* index of the city loop
    provLeft,      \* iterations left of the per-city provider loop
    records,       \* list records
    monthIdx,      \* index of the month loop
    provIdx,       \* index of the provider loop inside a month
    provDraws,     \* the draws random.randint(3, 4) is still to return
    catDraws,      \* the draws random.randint(3, 5) is still to return
    rowDraws,      \* the draws random.randint(8, 15) is still to return
    outLoc,        \* provider_locations.csv: [written, ids (its provider_id column)]
    outCharges,    \* charges.csv: [written, ids (its provider_id column)]
    outKpi         \* kpi.json: [written, kpi]

vizVars == <<argv, isMain, figuresCfg, fileCharges, fileLoc, fileKpi, pc, exitMsg, charges,
             loc, df, figs, KPI_DIV, cards_html, htmlFile, pngFile,
             pngTried, pngError, drv, warnings, browserOpened>>
genVars == <<gpc, nCities, nMonths, providers, prov_id, cityIdx, provLeft, records,
             monthIdx, provIdx, provDraws, catDraws, rowDraws,
             outLoc, outCharges, outKpi>>
vars == <<vizVars, genVars>>

\* ------------------------------------------------------------------ bounds
MaxRows == 2        \* rows of an input CSV
MaxPid == 2         \* provider_id values 1..MaxPid in an input CSV
MaxFigures == 2     \* length of CFG["figures"]
MaxCities == 3      \* len(CFG["cities"]) in data_gen.py
MaxMonths == 3      \* CFG["n_months"] in data_gen.py
MaxPeriod == 2      \* length of the pattern a stream of random draws repeats
MaxSeed == 1        \* CFG["seed"] is the committed seed or one of 0..MaxSeed

\* ------------------------------------------------------------------ helpers
Range(s) == {s[i] : i \in DOMAIN s}
SeqsUpTo(S, lo, hi) == UNION {[1..n -> S] : n \in lo..hi}
Min(S) == CHOOSE x \in S : \A y \in S : x <= y
\* Python's None where a column name is expected
None == <<>>

\* ------------------------------------------------------------ strings
UpperChars == <<"A","B","C","D","E","F","G","H","I","J","K","L","M",
                "N","O","P","Q","R","S","T","U","V","W","X","Y","Z">>
LowerChars == <<"a","b","c","d","e","f","g","h","i","j","k","l","m",
                "n","o","p","q","r","s","t","u","v","w","x","y","z">>
\* a character outside ASCII is written by its code point
ch_I_dot == "U+0130"        \* LATIN CAPITAL LETTER I WITH DOT ABOVE
ch_i_dotless == "U+0131"    \* LATIN SMALL LETTER DOTLESS I
ch_dot_above == "U+0307"    \* COMBINING DOT ABOVE
LowerChar(c) ==
    IF \E i \in DOMAIN UpperChars : UpperChars[i] = c
    THEN LowerChars[CHOOSE i \in DOMAIN UpperChars : UpperChars[i] = c]
    ELSE c
\* str.lower(): character by character; U+0130 becomes "i" followed by
\* U+0307, every other character of the names used here becomes one character
RECURSIVE Lower(_)
Lower(s) ==
    IF s = <<>> THEN <<>>
    ELSE (IF Head(s) = ch_I_dot THEN <<"i", ch_dot_above>>
          ELSE <<LowerChar(Head(s))>>) \o Lower(Tail(s))
\* the letter a character stands for under flags=re.I: the two cases of an
\* ASCII letter, and for "i" also U+0130 and U+0131
IgnoreCaseChar(c) == IF c \in {ch_I_dot, ch_i_dotless} THEN "i" ELSE LowerChar(c)
IgnoreCase(s) == [i \in DOMAIN s |-> IgnoreCaseChar(s[i])]
\* sub in s
Contains(sub, s) ==
    \E i \in 0..(Len(s) - Len(sub)) : SubSeq(s, i + 1, i + Len(sub)) = sub

n_charge == <<"c","h","a","r","g","e">>
n_charge_amount == n_charge \o <<"_","a","m","o","u","n","t">>
n_Total_Charge == <<"T","o","t","a","l","_","C","h","a","r","g","e">>
n_CHARGE_CODE == <<"C","H","A","R","G","E","_","C","O","D","E">>
n_amount == <<"a","m","o","u","n","t">>
n_provider_id == <<"p","r","o","v","i","d","e","r","_","i","d">>
n_provider_name == <<"p","r","o","v","i","d","e","r","_","n","a","m","e">>
n_provider_city == <<"p","r","o","v","i","d","e","r","_","c","i","t","y">>
n_city == <<"c","i","t","y">>
n_City == <<"C","i","t","y">>
n_CITY_Y == <<"C","I","T","Y","_","Y">>
n_c_Idot_ty == <<"c", ch_I_dot, "t", "y">>
n_c_idotless_ty == <<"c", ch_i_dotless, "t", "y">>
n_cityname == <<"c","i","t","y","n","a","m","e">>
n_town == <<"t","o","w","n">>
n_lat == <<"l","a","t">>
n_lon == <<"l","o","n">>
n_LNG == <<"L","N","G">>
n_lonx == <<"l","o","n","x">>
n_Lat_Y == <<"L","a","t","_","Y">>
n_latitude == <<"l","a","t","i","t","u","d","e">>
n_payer_type == <<"p","a","y","e","r","_","t","y","p","e">>
n_procedure_category == <<"p","r","o","c","e","d","u","r","e","_",
                          "c","a","t","e","g","o","r","y">>
n_procedure_sub == <<"p","r","o","c","e","d","u","r","e","_","s","u","b">>
n_proc_category == <<"p","r","o","c","_","c","a","t","e","g","o","r","y">>
n_proc_subcategory == <<"p","r","o","c","_","s","u","b",
                        "c","a","t","e","g","o","r","y">>
n_month == <<"m","o","n","t","h">>
n_lng == <<"l","n","g">>
sfx_x == <<"_","x">>
sfx_y == <<"_","y">>
lit_Unknown_City == <<"U","n","k","n","o","w","n"," ","C","i","t","y">>

\* ------------------------------------------------------------ tables
\* A DataFrame: its column names in order, where each column's values come
\* from (<<"charges", c>> or <<"loc", c>>: column c of that CSV;
\* <<"const", v>>: the literal v in every row), and its rows.  Rows of an
\* input table carry their provider_id value; rows of the merged table carry
\* the key and the indices of the charges row (l) and of the provider row
\* (r, 0 when no provider matched and the right-hand cells are null).
Frame(tab, cols, rows) ==
    [cols |-> cols, src |-> [i \in DOMAIN cols |-> <<tab, cols[i]>>], rows |-> rows]
EmptyFrame == [cols |-> <<>>, src |-> <<>>, rows |-> <<>>]
HasCol(t, c) == c \in Range(t.cols)
\* DataFrame.rename(columns={old: new}): every column labelled old
Rename(t, old, new) ==
    [t EXCEPT !.cols = [i \in DOMAIN t.cols |->
                           IF t.cols[i] = old THEN new ELSE t.cols[i]]]
\* df[c] = v for a new label c
AddConstCol(t, c, v) ==
    [t EXCEPT !.cols = Append(t.cols, c), !.src = Append(t.src, <<"const", v>>)]
\* next((c for c in cols if c in matching), None)
FirstIn(cols, matching) ==
    IF \E i \in DOMAIN cols : cols[i] \in matching
    THEN cols[Min({i \in DOMAIN cols : cols[i] \in matching})]
    ELSE None

\* "charge" in c.lower()
IsChargeName(c) == Contains(n_charge, Lower(c))
\* faulty variant of charge_col: the last matching column instead of the first
charge_col_mut_last(cols) ==
    IF \E i \in DOMAIN cols : IsChargeName(cols[i])
    THEN cols[CHOOSE i \in DOMAIN cols :
                 /\ IsChargeName(cols[i])
                 /\ \A j \in DOMAIN cols : IsChargeName(cols[j]) => j <= i]
    ELSE None
charge_col(cols) == FirstIn(cols, {c \in Range(cols) : IsChargeName(c)})

\* re.fullmatch of  stem (sep [xy])?  for a stem of stems, where sep is "_"
\* (sepOptional FALSE) or "_?" (sepOptional TRUE)
StemSuffixMatch(stems, sepOptional, s) ==
    \E st \in stems :
        /\ Len(s) >= Len(st)
        /\ SubSeq(s, 1, Len(st)) = st
        /\ LET rest == SubSeq(s, Len(st) + 1, Len(s)) IN
           \/ rest = <<>>
           \/ Len(rest) = 2 /\ rest[1] = "_" /\ rest[2] \in {"x", "y"}
           \/ sepOptional /\ Len(rest) = 1 /\ rest[1] \in {"x", "y"}
PatStems(pat) ==
    CASE pat = "city(_[xy])?" -> {n_city}
      [] pat = "lat(_[xy])?" -> {n_lat}
      [] pat = "(lon|lng)(_?[xy])?" -> {n_lon, n_lng}
\* faulty variant of ReFullMatchI: re.search of the stem instead of re.fullmatch
ReFullMatchI_mut_search(pat, c) ==
    \E st \in PatStems(pat) : Contains(st, IgnoreCase(c))
\* re.fullmatch(pat, c, flags=re.I) for the three patterns of the script
ReFullMatchI(pat, c) ==
    StemSuffixMatch(PatStems(pat), pat = "(lon|lng)(_?[xy])?", IgnoreCase(c))
_first(cols, pat) == FirstIn(cols, {c \in Range(cols) : ReFullMatchI(pat, c)})

\* charges.merge(loc, on="provider_id", how="left"): column labels.  The key
\* comes first from the left table; a label present on both sides gets the
\* suffixes _x and _y.
MergeCols(l, r) ==
    LET overlap == (Range(l.cols) \cap Range(r.cols)) \ {n_provider_id}
        IsNotKey(c) == c # n_provider_id
        rcols == SelectSeq(r.cols, IsNotKey)
    IN  [i \in DOMAIN l.cols |->
            IF l.cols[i] \in overlap THEN l.cols[i] \o sfx_x ELSE l.cols[i]]
        \o [i \in DOMAIN rcols |->
            IF rcols[i] \in overlap THEN rcols[i] \o sfx_y ELSE rcols[i]]
MergeSrc(l, r) ==
    LET IsNotKey(s) == s[2] # n_provider_id
    IN  l.src \o SelectSeq(r.src, IsNotKey)
\* the rows a left row yields: one per matching right row, in right order,
\* or one with nulls when none matches
RECURSIVE MatchRows(_, _, _, _)
MatchRows(key, li, rrows, j) ==
    IF j > Len(rrows) THEN <<>>
    ELSE (IF rrows[j] = key THEN <<[pid |-> key, l |-> li, r |-> j]>> ELSE <<>>)
         \o MatchRows(key, li, rrows, j + 1)
\* faulty variant of LeftRowJoin: how="inner", unmatched rows are dropped
LeftRowJoin_mut_inner(key, li, rrows) == MatchRows(key, li, rrows, 1)
LeftRowJoin(key, li, rrows) ==
    LET m == MatchRows(key, li, rrows, 1)
    IN  IF m = <<>> THEN <<[pid |-> key, l |-> li, r |-> 0]>> ELSE m
RECURSIVE MergeRows(_, _, _)
MergeRows(lrows, rrows, i) ==
    IF i > Len(lrows) THEN <<>>
    ELSE LeftRowJoin(lrows[i], i, rrows) \o MergeRows(lrows, rrows, i + 1)
Merge(l, r) ==
    [cols |-> MergeCols(l, r), src |-> MergeSrc(l, r),
     rows |-> MergeRows(l.rows, r.rows, 1)]

\* ------------------------------------------------------------ viz.py inputs
\* the columns data_gen.py writes
GenChargesCols ==
    <<n_provider_id, n_provider_name, n_city, n_lat, n_lon, n_payer_type,
      n_procedure_category, n_procedure_sub, n_month, n_charge_amount>>
GenLocCols == <<n_provider_id, n_provider_name, n_city, n_lat, n_lon>>
ChargesColsChoices ==
    { GenChargesCols,
      <<n_provider_id, n_payer_type, n_procedure_category, n_procedure_sub,
        n_Total_Charge>>,
      <<n_provider_id, n_payer_type, n_procedure_category, n_procedure_sub,
        n_CHARGE_CODE, n_charge_amount>>,
      <<n_provider_id, n_payer_type, n_procedure_category, n_procedure_sub,
        n_Total_Charge, n_charge>>,
      <<n_provider_id, n_provider_city, n_payer_type, n_procedure_category,
        n_procedure_sub, n_charge>>,
      <<n_provider_id, n_cityname, n_payer_type, n_procedure_category,
        n_procedure_sub, n_charge_amount>>,
      <<n_provider_id, n_city, n_payer_type, n_procedure_category, n_charge>>,
      <<n_provider_id, n_payer_type, n_amount>>,
      <<n_payer_type, n_charge_amount>> }
LocColsChoices ==
    { GenLocCols,
      <<n_provider_id, n_City, n_LNG, n_Lat_Y>>,
      <<n_provider_id, n_CITY_Y, n_city>>,
      <<n_provider_id, n_town, n_latitude, n_lonx>>,
      <<n_provider_id, n_provider_city>>,
      <<n_provider_id, n_c_Idot_ty>>,
      <<n_provider_id, n_town, n_c_idotless_ty, n_city>>,
      <<n_provider_name, n_city>> }
DefaultRows == <<1, 2>>
FigureKeys == {"sankey", "treemap", "heatmap"}
DefaultFigures == <<"sankey", "treemap", "heatmap">>
Flags == {"--png", "--no-browser"}
FileOf(present, cols, rows) ==
    IF present THEN [exists |-> TRUE, cols |-> cols, rows |-> rows]
    ELSE [exists |-> FALSE, cols |-> <<>>, rows |-> <<>>]

\* kpi.json: missing, not JSON, or a JSON value.  A value is its type and,
\* for an object, its entries in order.
JEntry(k, t) == [k |-> k, type |-> t]
KpiChoices ==
    { [kind |-> "missing", top |-> "", entries |-> <<>>],
      [kind |-> "invalid", top |-> "", entries |-> <<>>],
      [kind |-> "json", top |-> "list", entries |-> <<>>],
      [kind |-> "json", top |-> "object", entries |-> <<>>],
      [kind |-> "json", top |-> "object",
       entries |-> <<JEntry("average_charge", "float")>>],
      [kind |-> "json", top |-> "object",
       entries |-> <<JEntry("average_charge", "float"), JEntry("state", "str")>>],
      [kind |-> "json", top |-> "object",
       entries |-> <<JEntry("n_rows", "int"), JEntry("complete", "bool")>>],
      [kind |-> "json", top |-> "object",
       entries |-> <<JEntry("median_charge", "null")>>] }
\* what data_gen.py dumps: {"average_charge": <float>, "state": <str>}
GenKpi ==
    [kind |-> "json", top |-> "object",
     entries |-> <<JEntry("average_charge", "float"), JEntry("state", "str")>>]
NoKpi == [kind |-> "unread", top |-> "", entries |-> <<>>]

\* an HTML fragment: "" or a card
EmptyStr == [kind |-> "empty", key |-> "", span |-> "", rows |-> <<>>]
Card(kind, key, span, rows) == [kind |-> kind, key |-> key, span |-> span, rows |-> rows]

InitProgram ==
    /\ pc = "check_files"
    /\ exitMsg = ""
    /\ charges = EmptyFrame /\ loc = EmptyFrame /\ df = EmptyFrame
    /\ figs = <<>>
    /\ KPI_DIV = EmptyStr
    /\ cards_html = <<>>
    /\ htmlFile = [written |-> FALSE, cards |-> <<>>]
    /\ pngFile = FALSE /\ pngTried = FALSE /\ pngError = ""
    /\ drv = "none"
    /\ warnings = <<>>
    /\ browserOpened = FALSE
\* The inputs of a run.  DefaultRun is the run on the generator's output
\* with the script as committed and no arguments; each disjunct of InitInputs
\* lets one input range over its choices.
DefaultArgs == argv = {} /\ isMain = TRUE
DefaultTables ==
    /\ fileCharges = FileOf(TRUE, GenChargesCols, DefaultRows)
    /\ fileLoc = FileOf(TRUE, GenLocCols, DefaultRows)
DefaultCfg == figuresCfg = DefaultFigures
DefaultKpi == fileKpi = GenKpi
InitInputs ==
    \/ \* any arguments
       /\ argv \in SUBSET Flags /\ isMain \in BOOLEAN
       /\ DefaultTables /\ DefaultCfg /\ DefaultKpi
    \/ \* any column layout
       /\ \E cc \in ChargesColsChoices : fileCharges = FileOf(TRUE, cc, DefaultRows)
       /\ \E lc \in LocColsChoices : fileLoc = FileOf(TRUE, lc, DefaultRows)
       /\ DefaultArgs /\ DefaultCfg /\ DefaultKpi
    \/ \* any rows
       /\ \E r \in SeqsUpTo(1..MaxPid, 1, MaxRows) :
             fileCharges = FileOf(TRUE, GenChargesCols, r)
       /\ \E r \in SeqsUpTo(1..MaxPid, 0, MaxRows) :
             fileLoc = FileOf(TRUE, GenLocCols, r)
       /\ DefaultArgs /\ DefaultCfg /\ DefaultKpi
    \/ \* any figure list and any kpi.json
       /\ figuresCfg \in SeqsUpTo(FigureKeys, 0, MaxFigures)
       /\ fileKpi \in KpiChoices
       /\ DefaultArgs /\ DefaultTables
    \/ \* an input file missing
       /\ \E ce, le \in BOOLEAN :
             /\ ~(ce /\ le)
             /\ fileCharges = FileOf(ce, GenChargesCols, DefaultRows)
             /\ fileLoc = FileOf(le, GenLocCols, DefaultRows)
       /\ DefaultArgs /\ DefaultCfg /\ DefaultKpi

\* ------------------------------------------------------------ viz.py steps
Exit(msg) == pc' = "exited" /\ exitMsg' = msg
Crash(exc) == pc' = "crashed" /\ exitMsg' = exc

\* faulty variant of RequiredFiles: provider_locations.csv is not checked
RequiredFiles_mut_charges_only == <<"charges.csv">>
\* for p in (PATH_CHARGES, PATH_LOC)
RequiredFiles == <<"charges.csv", "provider_locations.csv">>
FileNamed(p) == IF p = "charges.csv" THEN fileCharges ELSE fileLoc

CheckFiles ==
    /\ pc = "check_files"
    /\ LET missing == {i \in DOMAIN RequiredFiles : ~FileNamed(RequiredFiles[i]).exists}
       IN  IF missing # {}
           THEN Exit("Required file missing: " \o RequiredFiles[Min(missing)])
           ELSE pc' = "read_csv" /\ exitMsg' = exitMsg
    /\ UNCHANGED genVars
    /\ UNCHANGED <<argv, isMain, figuresCfg, fileCharges, fileLoc, fileKpi, charges, loc, df,
                   figs, KPI_DIV, cards_html, htmlFile, pngFile, pngTried,
                   pngError, drv, warnings, browserOpened>>

ReadCsv ==
    /\ pc = "read_csv"
    /\ IF fileCharges.exists /\ fileLoc.exists
       THEN /\ charges' = Frame("charges", fileCharges.cols, fileCharges.rows)
            /\ loc' = Frame("loc", fileLoc.cols, fileLoc.rows)
            /\ pc' = "detect_charge" /\ exitMsg' = exitMsg
       ELSE /\ Crash("FileNotFoundError")
            /\ UNCHANGED <<charges, loc>>
    /\ UNCHANGED genVars
    /\ UNCHANGED <<argv, isMain, figuresCfg, fileCharges, fileLoc, fileKpi, df,
                   figs, KPI_DIV, cards_html, htmlFile, pngFile, pngTried,
                   pngError, drv, warnings, browserOpened>>

DetectCharge ==
    /\ pc = "detect_charge"
    /\ LET c == charge_col(charges.cols)
       IN  IF c = None
           THEN /\ Exit("No column containing the word 'charge' found.")
                /\ UNCHANGED charges
           ELSE /\ charges' = Rename(charges, c, n_charge)
                /\ pc' = "verify_provider_id" /\ exitMsg' = exitMsg
    /\ UNCHANGED genVars
    /\ UNCHANGED <<argv, isMain, figuresCfg, fileCharges, fileLoc, fileKpi, loc, df,
                   figs, KPI_DIV, cards_html, htmlFile, pngFile, pngTried,
                   pngError, drv, warnings, browserOpened>>

VerifyAndMerge ==
    /\ pc = "verify_provider_id"
    /\ IF ~HasCol(charges, n_provider_id) \/ ~HasCol(loc, n_provider_id)
       THEN /\ Exit("Both CSVs must contain provider_id for merging.")
            /\ UNCHANGED df
       ELSE /\ df' = Merge(charges, loc)
            /\ pc' = "norm_city" /\ exitMsg' = exitMsg
    /\ UNCHANGED genVars
    /\ UNCHANGED <<argv, isMain, figuresCfg, fileCharges, fileLoc, fileKpi, charges, loc,
                   figs, KPI_DIV, cards_html, htmlFile, pngFile, pngTried,
                   pngError, drv, warnings, browserOpened>>

NormCity ==
    /\ pc = "norm_city"
    /\ IF ~HasCol(df, n_provider_city)
       THEN LET c == _first(df.cols, "city(_[xy])?")
            IN  IF c # None
                THEN df' = Rename(df, c, n_provider_city)
                ELSE df' = AddConstCol(df, n_provider_city, lit_Unknown_City)
       ELSE df' = df
    /\ pc' = "norm_latlon"
    /\ UNCHANGED genVars
    /\ UNCHANGED <<argv, isMain, figuresCfg, fileCharges, fileLoc, fileKpi, charges, loc, exitMsg,
                   figs, KPI_DIV, cards_html, htmlFile, pngFile, pngTried,
                   pngError, drv, warnings, browserOpened>>

\* one round of: for want, pat in [...]: if want not in df.columns: ...
NormOne(t, want, pat) ==
    IF ~HasCol(t, want)
    THEN LET alt == _first(t.cols, pat)
         IN  IF alt # None THEN Rename(t, alt, want) ELSE t
    ELSE t
NormLatLon ==
    /\ pc = "norm_latlon"
    /\ df' = NormOne(NormOne(df, n_lat, "lat(_[xy])?"), n_lon, "(lon|lng)(_?[xy])?")
    /\ pc' = "rename_proc"
    /\ UNCHANGED genVars
    /\ UNCHANGED <<argv, isMain, figuresCfg, fileCharges, fileLoc, fileKpi, charges, loc, exitMsg,
                   figs, KPI_DIV, cards_html, htmlFile, pngFile, pngTried,
                   pngError, drv, warnings, browserOpened>>

RenameProc ==
    /\ pc = "rename_proc"
    /\ df' = Rename(Rename(df, n_procedure_category, n_proc_category),
                    n_procedure_sub, n_proc_subcategory)
    /\ pc' = "to_numeric"
    /\ UNCHANGED genVars
    /\ UNCHANGED <<argv, isMain, figuresCfg, fileCharges, fileLoc, fileKpi, charges, loc, exitMsg,
                   figs, KPI_DIV, cards_html, htmlFile, pngFile, pngTried,
                   pngError, drv, warnings, browserOpened>>

\* df[col] is a DataFrame, not a Series, when the label col occurs twice, and
\* pd.to_numeric raises TypeError on it
Coerce ==
    /\ pc = "to_numeric"
    /\ IF \E col \in {n_charge, n_lat, n_lon} :
             Cardinality({i \in DOMAIN df.cols : df.cols[i] = col}) > 1
       THEN Crash("TypeError")
       ELSE pc' = "fig_sankey" /\ exitMsg' = exitMsg
    /\ UNCHANGED genVars
    /\ UNCHANGED <<argv, isMain, figuresCfg, fileCharges, fileLoc, fileKpi, charges, loc, df,
                   figs, KPI_DIV, cards_html, htmlFile, pngFile, pngTried,
                   pngError, drv, warnings, browserOpened>>

\* the columns each figure reads from df; a missing one raises and nothing
\* catches it
FigureNeeds(key) ==
    CASE key = "sankey" -> {n_payer_type, n_proc_category, n_provider_city, n_charge}
      [] key = "treemap" -> {n_proc_category, n_proc_subcategory, n_payer_type, n_charge}
      [] key = "heatmap" -> {n_provider_city, n_proc_category, n_charge}
\* what a missing column raises: the sankey and the heatmap read df through
\* df[c] and df.groupby, which raise KeyError; the treemap hands df to
\* px.treemap, which raises ValueError for a name that is not a column
FigureRaises(key) == IF key = "treemap" THEN "ValueError" ELSE "KeyError"
\* figs.append((f, True)) for the sankey, (f, False) for the others
FigureFull(key) == key = "sankey"
\* if key in CFG["figures"]
FigureWanted(key) == key \in Range(figuresCfg)
BuildFig(key, here, next) ==
    /\ pc = here
    /\ IF FigureWanted(key)
       THEN IF FigureNeeds(key) \subseteq Range(df.cols)
            THEN /\ figs' = Append(figs, [key |-> key, full |-> FigureFull(key)])
                 /\ pc' = next /\ exitMsg' = exitMsg
            ELSE /\ Crash(FigureRaises(key))
                 /\ figs' = figs
       ELSE /\ figs' = figs
            /\ pc' = next /\ exitMsg' = exitMsg
    /\ UNCHANGED genVars
    /\ UNCHANGED <<argv, isMain, figuresCfg, fileCharges, fileLoc, fileKpi, charges, loc, df,
                   KPI_DIV, cards_html, htmlFile, pngFile, pngTried,
                   pngError, drv, warnings, browserOpened>>
BuildSankey == BuildFig("sankey", "fig_sankey", "fig_treemap")
BuildTreemap == BuildFig("treemap", "fig_treemap", "fig_heatmap")
BuildHeatmap == BuildFig("heatmap", "fig_heatmap", "kpi")

\* f"{v:,}": the "," format specifier is defined for int, float and bool
\* (an int); str raises ValueError, None/list/dict raise TypeError
FormatCommaOk(type) == type \in {"int", "float", "bool"}
\* the try block of section 4: the card, or "" when anything in it raised
KpiDiv(k) ==
    IF /\ k.kind = "json"
       /\ k.top = "object"
       /\ \A i \in DOMAIN k.entries : FormatCommaOk(k.entries[i].type)
    THEN Card("kpi", "Key Metrics", "2",
              [i \in DOMAIN k.entries |-> <<k.entries[i].k, k.entries[i].type>>])
    ELSE EmptyStr
ReadKpi ==
    /\ pc = "kpi"
    /\ KPI_DIV' = KpiDiv(fileKpi)
    /\ pc' = "assemble"
    /\ UNCHANGED genVars
    /\ UNCHANGED <<argv, isMain, figuresCfg, fileCharges, fileLoc, fileKpi, charges, loc, df,
                   exitMsg, figs, cards_html, htmlFile, pngFile, pngTried,
                   pngError, drv, warnings, browserOpened>>

\* span = "2" if (i == 0 and full) else "1"
ChartCard(i, fig) == Card("chart", fig.key, IF i = 1 /\ fig.full THEN "2" ELSE "1", <<>>)
Assemble ==
    /\ pc = "assemble"
    /\ cards_html' = (IF KPI_DIV # EmptyStr THEN <<KPI_DIV>> ELSE <<>>)
                     \o [i \in DOMAIN figs |-> ChartCard(i, figs[i])]
    /\ pc' = "write_html"
    /\ UNCHANGED genVars
    /\ UNCHANGED <<argv, isMain, figuresCfg, fileCharges, fileLoc, fileKpi, charges, loc, df,
                   exitMsg, figs, KPI_DIV, htmlFile, pngFile, pngTried,
                   pngError, drv, warnings, browserOpened>>

WriteHtml ==
    /\ pc = "write_html"
    /\ htmlFile' = [written |-> TRUE, cards |-> cards_html]
    /\ pc' = "call_save_png"
    /\ UNCHANGED genVars
    /\ UNCHANGED <<argv, isMain, figuresCfg, fileCharges, fileLoc, fileKpi, charges, loc, df,
                   exitMsg, figs, KPI_DIV, cards_html, pngFile, pngTried,
                   pngError, drv, warnings, browserOpened>>

\* save_png(html_path, png_path) is called whatever the arguments are
ShouldSavePng == TRUE
CallSavePng ==
    /\ pc = "call_save_png"
    /\ IF ShouldSavePng
       THEN pngTried' = TRUE /\ pc' = "png_import"
       ELSE pngTried' = pngTried /\ pc' = "open_browser"
    /\ UNCHANGED genVars
    /\ UNCHANGED <<argv, isMain, figuresCfg, fileCharges, fileLoc, fileKpi, charges, loc, df,
                   exitMsg, figs, KPI_DIV, cards_html, htmlFile, pngFile,
                   pngError, drv, warnings, browserOpened>>

\* the statements of the try block of save_png, in order
PngSteps == <<"import", "start", "get", "script", "resize", "shot", "quit">>
PngPc(step) == "png_" \o step
StepAfter(step) ==
    LET i == CHOOSE j \in DOMAIN PngSteps : PngSteps[j] = step
    IN  IF i = Len(PngSteps) THEN "open_browser" ELSE PngPc(PngSteps[i + 1])
\* what each statement can raise
Raises(step) == IF step = "import" THEN "ImportError" ELSE "WebDriverException"
\* faulty variant of Caught: except ImportError
Caught_mut_import_only(exc) == exc = "ImportError"
\* except Exception: every error class raised above derives from Exception
Caught(exc) == exc \in {"ImportError", "WebDriverException"}
\* the driver process after a statement ran to its end
DrvAfter(step) ==
    CASE step = "start" -> {"running"}
      [] step = "quit" -> {"quit"}
      [] OTHER -> {drv}
PngStepOk ==
    /\ \E step \in Range(PngSteps) :
          /\ pc = PngPc(step)
          /\ drv' \in DrvAfter(step)
          /\ pngFile' = (pngFile \/ step = "shot")
          /\ pc' = StepAfter(step)
    /\ UNCHANGED genVars
    /\ UNCHANGED <<argv, isMain, figuresCfg, fileCharges, fileLoc, fileKpi, charges, loc, df,
                   exitMsg, figs, KPI_DIV, cards_html, htmlFile, pngTried,
                   pngError, warnings, browserOpened>>
\* a statement raises: the except clause prints the warning and save_png
\* returns; nothing in it touches the driver.  A failed quit() may or may
\* not have stopped the process.
PngStepRaises ==
    /\ \E step \in Range(PngSteps) :
          /\ pc = PngPc(step)
          /\ pngError' = step
          /\ drv' \in (IF step = "quit" THEN {"running", "quit"} ELSE {drv})
          /\ IF Caught(Raises(step))
             THEN /\ warnings' = Append(warnings, "PNG not created: " \o Raises(step))
                  /\ pc' = "open_browser" /\ exitMsg' = exitMsg
             ELSE /\ warnings' = warnings
                  /\ Crash(Raises(step))
    /\ UNCHANGED genVars
    /\ UNCHANGED <<argv, isMain, figuresCfg, fileCharges, fileLoc, fileKpi, charges, loc, df,
                   figs, KPI_DIV, cards_html, htmlFile, pngFile, pngTried,
                   browserOpened>>

\* faulty variant of ShouldOpenBrowser: the flag is not looked at
ShouldOpenBrowser_mut_always == isMain
\* if __name__ == "__main__" and "--no-browser" not in sys.argv
ShouldOpenBrowser == isMain /\ "--no-browser" \notin argv
OpenBrowser ==
    /\ pc = "open_browser"
    /\ browserOpened' = ShouldOpenBrowser
    /\ pc' = "done"
    /\ UNCHANGED genVars
    /\ UNCHANGED <<argv, isMain, figuresCfg, fileCharges, fileLoc, fileKpi, charges, loc, df,
                   exitMsg, figs, KPI_DIV, cards_html, htmlFile, pngFile,
                   pngTried, pngError, drv, warnings>>

\* ------------------------------------------------------------ data_gen.py
ProvPerCityMin == 3
ProvPerCityMax == 4
CatsMin == 3
CatsMax == 5
RowsMin == 8
RowsMax == 15
NotWritten == [written |-> FALSE, ids |-> <<>>]

\* random.seed(CFG["seed"]) fixes every draw of the run before the first
\* loop starts.  The draws that decide how many providers and rows there are
\* are kept as one stream for each call site; a stream is given by the
\* pattern it repeats, the next draw first.
\* the value the next call returns
Draw(s) == Head(s)
\* the stream after k calls
RECURSIVE Drawn(_, _)
Drawn(s, k) == IF k = 0 THEN s ELSE Drawn(Tail(s) \o <<Head(s)>>, k - 1)
\* the sum of the values the next k calls return
RECURSIVE SumDraws(_, _)
SumDraws(s, k) ==
    IF k = 0 THEN 0 ELSE Head(s) + SumDraws(Tail(s) \o <<Head(s)>>, k - 1)

InitGenProgram ==
    /\ gpc = "providers"
    /\ providers = <<>>
    /\ prov_id = 1
    /\ cityIdx = 0 /\ provLeft = 0
    /\ records = <<>>
    /\ monthIdx = 0 /\ provIdx = 0
    /\ outLoc = NotWritten /\ outCharges = NotWritten
    /\ outKpi = [written |-> FALSE, kpi |-> NoKpi]
CommittedSeed == 42
\* the values of CFG["seed"] whose runs are followed
Seeds == (0..MaxSeed) \cup {CommittedSeed}
\* what random.randint returns after random.seed(seed) in a run over the
\* given number of cities: prov at line 75, cats at line 92, rows at line 95,
\* in call order, as far as a run of four months gets (a run over fewer
\* months makes the first of these calls).  Recorded from runs of
\* data_gen.py with CFG["seed"], CFG["cities"] and CFG["n_months"] set so.
RandintDraws(seed, cities) ==
    CASE seed = 0 /\ cities = 1 ->
           [prov |-> <<4>>,
            cats |-> <<5, 4, 5, 3, 4, 5, 3, 5, 3, 4, 3, 4, 3, 4, 5, 3>>,
            rows |-> <<12, 8, 12, 14, 8, 14, 12, 11, 11, 10, 10, 9, 9, 8, 14, 15, 15,
                15, 9, 8, 9, 10, 8, 14, 12, 14, 8, 10, 12, 13, 15, 9, 9, 11, 13,
                10, 10, 12, 12, 12, 14, 15, 14, 14, 8, 9, 10, 8, 14, 10, 13, 15,
                9, 13, 9, 11, 10, 15, 14, 12, 14, 9, 14>>]
      [] seed = 0 /\ cities = 2 ->
           [prov |-> <<4, 3>>,
            cats |-> <<5, 3, 3, 3, 5, 3, 3, 4, 5, 3, 3, 5, 5, 4, 4, 4, 3, 5, 4, 5, 5,
                4, 5, 5, 5, 5, 3, 4>>,
            rows |-> <<13, 15, 14, 8, 11, 12, 10, 15, 9, 15, 15, 9, 10, 14, 8, 14, 12,
                11, 12, 15, 13, 12, 11, 10, 9, 10, 12, 11, 15, 15, 10, 10, 14,
                13, 14, 8, 11, 15, 14, 11, 10, 12, 12, 13, 8, 8, 10, 10, 13, 9,
                8, 15, 13, 9, 10, 15, 8, 10, 15, 9, 15, 8, 13, 8, 13, 15, 8, 13,
                15, 13, 8, 10, 12, 14, 15, 15, 12, 8, 10, 8, 8, 8, 9, 13, 11,
                15, 9, 14, 11, 12, 12, 10, 11, 9, 10, 15, 10, 9, 12, 12, 14, 10,
                8, 15, 9, 8, 12, 14, 8, 14, 12, 14, 9, 15, 11>>]
      [] seed = 0 /\ cities = 3 ->
           [prov |-> <<4, 3, 3>>,
            cats |-> <<4, 4, 5, 3, 4, 5, 3, 5, 3, 4, 3, 4, 3, 4, 5, 3, 4, 3, 5, 4, 4,
                4, 4, 3, 5, 5, 5, 3, 4, 5, 3, 3, 3, 4, 3, 4, 4, 3, 5, 5>>,
            rows |-> <<12, 12, 14, 8, 14, 12, 11, 11, 10, 10, 9, 9, 8, 14, 15, 15, 15,
                9, 8, 9, 10, 8, 14, 12, 14, 8, 10, 12, 13, 15, 9, 9, 11, 13, 10,
                10, 12, 12, 12, 14, 15, 14, 14, 8, 9, 10, 8, 14, 10, 13, 15, 9,
                13, 9, 11, 10, 15, 14, 12, 14, 9, 14, 14, 15, 11, 13, 13, 11, 9,
                12, 8, 10, 9, 15, 12, 10, 12, 8, 9, 8, 8, 8, 14, 13, 10, 10, 13,
                13, 14, 12, 12, 10, 11, 9, 10, 15, 10, 9, 12, 12, 14, 10, 8, 15,
                9, 8, 12, 14, 8, 14, 12, 14, 9, 15, 11, 8, 8, 11, 13, 13, 8, 10,
                15, 14, 13, 12, 8, 15, 12, 12, 8, 13, 9, 13, 8, 11, 10, 14, 10,
                10, 8, 13, 15, 14, 8, 11, 11, 15, 15, 8, 14, 13, 13, 13, 14, 14,
                10>>]
      [] seed = 0 /\ cities = 4 ->
           [prov |-> <<4, 3, 3, 4>>,
            cats |-> <<3, 3, 3, 3, 4, 4, 3, 5, 5, 3, 3, 5, 5, 4, 4, 4, 3, 5, 4, 5, 5,
                4, 5, 5, 5, 5, 3, 4, 5, 3, 3, 3, 4, 3, 4, 4, 3, 5, 5, 4, 4, 3,
                3, 5, 4, 5, 5, 5, 4, 5, 5, 5, 4, 3, 4, 3>>,
            rows |-> <<8, 12, 14, 11, 9, 14, 14, 11, 10, 9, 15, 14, 13, 9, 12, 13, 9,
                9, 13, 12, 13, 12, 12, 15, 13, 12, 11, 15, 15, 10, 10, 14, 13,
                14, 8, 11, 15, 14, 11, 10, 12, 12, 13, 8, 8, 10, 10, 13, 9, 8,
                15, 13, 9, 10, 15, 8, 10, 15, 9, 15, 8, 13, 8, 13, 15, 8, 13,
                15, 13, 8, 10, 12, 14, 15, 15, 12, 8, 10, 8, 8, 8, 9, 13, 11,
                15, 9, 14, 11, 12, 12, 10, 11, 9, 10, 15, 10, 9, 12, 12, 14, 10,
                8, 15, 9, 8, 12, 14, 8, 14, 12, 14, 9, 15, 11, 8, 8, 11, 13, 13,
                8, 10, 15, 14, 13, 12, 8, 15, 12, 12, 8, 13, 9, 13, 8, 11, 10,
                14, 10, 10, 8, 13, 15, 14, 8, 11, 11, 15, 15, 8, 14, 13, 13, 13,
                14, 14, 10, 13, 14, 11, 9, 9, 13, 8, 10, 14, 11, 14, 10, 14, 13,
                10, 8, 9, 11, 9, 11, 10, 13, 9, 10, 8, 10, 14, 12, 9, 11, 9, 14,
                12, 9, 13, 14, 15, 11, 11, 13, 15, 9, 8, 9, 12, 8, 15, 10, 11,
                8, 10, 11, 14, 14, 9, 9, 9, 10, 10, 8, 11, 12, 12, 13, 13, 11,
                14, 9, 8, 10, 8>>]
      [] seed = 1 /\ cities = 1 ->
           [prov |-> <<3>>,
            cats |-> <<4, 3, 5, 5, 3, 5, 3, 3, 3, 4, 5, 3>>,
            rows |-> <<14, 12, 9, 13, 12, 11, 11, 15, 15, 14, 15, 8, 11, 10, 12, 15,
                14, 8, 15, 11, 15, 11, 11, 14, 8, 12, 14, 11, 13, 13, 10, 9, 12,
                14, 11, 15, 13, 10, 13, 13, 11, 15, 8, 14, 11, 12>>]
      [] seed = 1 /\ cities = 2 ->
           [prov |-> <<3, 4>>,
            cats |-> <<5, 5, 3, 5, 3, 5, 3, 3, 3, 4, 5, 3, 3, 5, 5, 3, 3, 4, 4, 5, 4,
                3, 4, 4, 4, 4, 3, 5>>,
            rows |-> <<8, 9, 14, 12, 10, 9, 15, 14, 11, 11, 12, 11, 9, 11, 10, 12, 15,
                14, 8, 15, 11, 15, 11, 11, 14, 8, 12, 14, 11, 13, 13, 10, 9, 12,
                14, 11, 15, 13, 10, 13, 13, 11, 15, 8, 14, 11, 12, 11, 15, 15,
                13, 10, 8, 10, 13, 10, 9, 8, 8, 11, 15, 8, 9, 11, 12, 8, 9, 8,
                14, 10, 9, 12, 11, 13, 13, 8, 15, 14, 9, 11, 13, 11, 14, 8, 12,
                11, 10, 15, 8, 10, 12, 9, 8, 14, 14, 15, 11, 15, 12, 12, 14, 9,
                14, 10, 13, 13, 12, 14, 11, 10>>]
      [] seed = 1 /\ cities = 3 ->
           [prov |-> <<3, 4, 3>>,
            cats |-> <<4, 5, 3, 5, 3, 5, 3, 3, 3, 4, 5, 3, 3, 5, 5, 3, 3, 4, 4, 5, 4,
                3, 4, 4, 4, 4, 3, 5, 3, 4, 4, 4, 3, 3, 3, 3, 3, 3, 5, 3>>,
            rows |-> <<11, 12, 14, 15, 9, 15, 14, 11, 11, 12, 11, 9, 11, 10, 12, 15,
                14, 8, 15, 11, 15, 11, 11, 14, 8, 12, 14, 11, 13, 13, 10, 9, 12,
                14, 11, 15, 13, 10, 13, 13, 11, 15, 8, 14, 11, 12, 11, 15, 15,
                13, 10, 8, 10, 13, 10, 9, 8, 8, 11, 15, 8, 9, 11, 12, 8, 9, 8,
                14, 10, 9, 12, 11, 13, 13, 8, 15, 14, 9, 11, 13, 11, 14, 8, 12,
                11, 10, 15, 8, 10, 12, 9, 8, 14, 14, 15, 11, 15, 12, 12, 14, 9,
                14, 10, 13, 13, 12, 14, 11, 10, 15, 15, 9, 13, 8, 14, 13, 9, 11,
                12, 13, 9, 14, 8, 10, 14, 12, 10, 15, 14, 12, 10, 11, 15, 12,
                14, 15, 15, 9, 13, 8, 9, 14, 10, 12, 12, 8, 9, 11, 10, 11>>]
      [] seed = 1 /\ cities = 4 ->
           [prov |-> <<3, 4, 3, 4>>,
            cats |-> <<5, 5, 5, 3, 5, 4, 3, 3, 4, 3, 3, 3, 4, 4, 5, 5, 4, 4, 4, 5, 5,
                4, 5, 5, 5, 5, 5, 4, 4, 5, 5, 4, 4, 3, 5, 3, 3, 4, 5, 4, 3, 5,
                4, 3, 3, 5, 4, 3, 5, 4, 5, 3, 5, 3, 4, 5>>,
            rows |-> <<9, 14, 12, 10, 12, 13, 14, 11, 11, 14, 12, 12, 11, 10, 12, 13,
                9, 15, 8, 8, 12, 12, 11, 12, 12, 12, 10, 13, 14, 9, 13, 13, 15,
                9, 12, 11, 15, 8, 13, 13, 14, 8, 10, 10, 8, 8, 15, 10, 8, 12, 8,
                13, 14, 13, 13, 13, 12, 8, 8, 13, 15, 8, 10, 13, 12, 13, 11, 12,
                13, 12, 11, 15, 11, 15, 8, 10, 15, 15, 13, 12, 13, 13, 10, 14,
                9, 9, 15, 13, 9, 12, 12, 14, 12, 12, 12, 9, 8, 9, 11, 11, 14,
                12, 8, 10, 9, 14, 14, 15, 14, 8, 10, 9, 10, 12, 11, 14, 9, 8,
                14, 11, 11, 15, 8, 12, 14, 11, 10, 9, 15, 9, 10, 10, 11, 12, 11,
                9, 10, 14, 9, 12, 15, 13, 8, 15, 11, 14, 8, 12, 9, 12, 14, 14,
                8, 15, 9, 13, 11, 13, 13, 15, 9, 15, 8, 15, 12, 14, 11, 9, 14,
                14, 9, 9, 8, 13, 15, 14, 15, 12, 12, 10, 11, 11, 10, 14, 10, 9,
                15, 10, 14, 13, 15, 15, 12, 9, 11, 9, 13, 10, 12, 10, 8, 11, 10,
                12, 11, 13, 12, 11, 10, 10, 15, 14, 12, 15, 10, 13, 15, 13, 11,
                11, 11, 12, 8, 13, 15, 15, 14, 14, 10, 8, 14, 8>>]
      [] seed = 2 /\ cities = 1 ->
           [prov |-> <<3>>,
            cats |-> <<3, 3, 3, 3, 5, 4, 5, 3, 5, 5, 5, 5>>,
            rows |-> <<10, 13, 15, 11, 13, 14, 9, 8, 9, 15, 14, 12, 11, 15, 13, 12, 14,
                13, 8, 10, 10, 11, 8, 12, 15, 9, 14, 9, 12, 10, 12, 10, 15, 10,
                15, 11, 8, 9, 10, 10, 10, 14, 11, 11, 13, 11, 8, 13, 14>>]
      [] seed = 2 /\ cities = 2 ->
           [prov |-> <<3, 3>>,
            cats |-> <<5, 3, 4, 5, 4, 5, 4, 4, 4, 3, 3, 5, 3, 3, 3, 4, 4, 5, 4, 5, 5,
                4, 5, 5>>,
            rows |-> <<13, 11, 14, 9, 15, 8, 9, 9, 13, 14, 10, 8, 8, 12, 10, 12, 12,
                12, 9, 9, 15, 10, 14, 11, 12, 15, 11, 8, 11, 12, 9, 13, 8, 14,
                8, 8, 15, 11, 11, 10, 8, 8, 9, 13, 14, 9, 12, 11, 9, 14, 12, 10,
                8, 9, 9, 8, 14, 9, 10, 8, 11, 8, 15, 8, 11, 8, 9, 14, 10, 14,
                14, 15, 10, 11, 9, 15, 10, 9, 11, 8, 8, 15, 11, 12, 14, 14, 15,
                15, 12, 10, 10, 12, 15, 8, 14, 11, 8, 11, 15>>]
      [] seed = 2 /\ cities = 3 ->
           [prov |-> <<3, 3, 4>>,
            cats |-> <<5, 3, 5, 5, 5, 5, 5, 5, 3, 3, 5, 3, 3, 3, 4, 4, 5, 4, 5, 5, 4,
                5, 5, 4, 3, 3, 5, 3, 3, 4, 4, 4, 5, 4, 4, 3, 5, 5, 5, 4>>,
            rows |-> <<13, 13, 9, 8, 13, 10, 9, 10, 12, 15, 10, 10, 15, 15, 13, 12, 14,
                12, 14, 9, 10, 14, 11, 14, 9, 15, 8, 11, 13, 9, 10, 13, 14, 9,
                8, 11, 8, 9, 8, 10, 8, 8, 9, 13, 14, 9, 12, 11, 9, 14, 12, 10,
                8, 9, 9, 8, 14, 9, 10, 8, 11, 8, 15, 8, 11, 8, 9, 14, 10, 14,
                14, 15, 10, 11, 9, 15, 10, 9, 11, 8, 8, 15, 11, 12, 14, 14, 15,
                15, 12, 10, 10, 12, 15, 8, 14, 11, 8, 11, 15, 12, 11, 9, 9, 13,
                11, 11, 15, 12, 13, 11, 14, 14, 9, 11, 14, 9, 12, 11, 12, 12, 8,
                8, 13, 12, 15, 14, 8, 8, 12, 9, 9, 9, 12, 8, 10, 8, 15, 15, 12,
                15, 14, 12, 8, 10, 10, 13, 12, 12, 8, 11, 10, 12, 15, 9, 9, 13,
                13, 15, 14, 11, 13, 15, 13, 9, 10, 15, 14>>]
      [] seed = 2 /\ cities = 4 ->
           [prov |-> <<3, 3, 4, 3>>,
            cats |-> <<5, 4, 4, 5, 4, 5, 4, 5, 4, 5, 4, 5, 4, 4, 5, 4, 4, 4, 4, 5, 5,
                4, 3, 3, 5, 3, 3, 4, 4, 4, 5, 4, 4, 3, 5, 5, 5, 4, 5, 3, 3, 5,
                4, 5, 4, 3, 3, 5, 4, 4, 3, 4>>,
            rows |-> <<13, 12, 12, 9, 15, 9, 9, 11, 8, 10, 12, 11, 11, 10, 14, 12, 12,
                10, 14, 10, 15, 11, 10, 14, 13, 14, 9, 13, 10, 12, 10, 10, 13,
                9, 13, 11, 10, 12, 10, 11, 9, 10, 12, 9, 12, 15, 11, 12, 12, 15,
                11, 13, 11, 14, 11, 13, 9, 13, 13, 13, 11, 10, 14, 14, 12, 14,
                8, 10, 11, 9, 8, 15, 15, 11, 15, 9, 13, 12, 14, 14, 15, 15, 12,
                10, 10, 12, 15, 8, 14, 11, 8, 11, 15, 12, 11, 9, 9, 13, 11, 11,
                15, 12, 13, 11, 14, 14, 9, 11, 14, 9, 12, 11, 12, 12, 8, 8, 13,
                12, 15, 14, 8, 8, 12, 9, 9, 9, 12, 8, 10, 8, 15, 15, 12, 15, 14,
                12, 8, 10, 10, 13, 12, 12, 8, 11, 10, 12, 15, 9, 9, 13, 13, 15,
                14, 11, 13, 15, 13, 9, 10, 15, 14, 10, 8, 12, 13, 14, 12, 12,
                10, 8, 13, 11, 10, 8, 8, 10, 13, 8, 15, 8, 13, 9, 15, 11, 11,
                12, 8, 11, 14, 10, 12, 12, 10, 14, 14, 14, 15, 11, 11, 9, 13, 9,
                15, 15, 10, 9, 12, 10, 8, 9, 15, 14, 13, 11, 11, 13>>]
      [] seed = 42 /\ cities = 1 ->
           [prov |-> <<3>>,
            cats |-> <<3, 4, 4, 4, 5, 4, 4, 5, 4, 5, 5, 4>>,
            rows |-> <<9, 12, 9, 12, 12, 11, 15, 15, 8, 8, 9, 12, 10, 13, 9, 13, 10, 8,
                14, 8, 8, 8, 13, 13, 12, 15, 13, 9, 10, 8, 13, 11, 12, 8, 13,
                10, 15, 10, 14, 11, 13, 9, 14, 14, 13, 13, 10, 15, 15, 15, 10>>]
      [] seed = 42 /\ cities = 2 ->
           [prov |-> <<3, 3>>,
            cats |-> <<5, 3, 4, 3, 4, 4, 3, 3, 3, 4, 5, 5, 4, 3, 5, 3, 3, 4, 3, 5, 5,
                3, 3, 4>>,
            rows |-> <<10, 11, 11, 9, 12, 15, 15, 10, 10, 12, 12, 10, 13, 9, 11, 11,
                15, 12, 15, 9, 10, 8, 15, 11, 11, 8, 11, 10, 8, 12, 11, 12, 8,
                13, 10, 15, 10, 14, 11, 13, 9, 14, 14, 13, 13, 10, 15, 15, 15,
                10, 10, 12, 9, 10, 11, 9, 13, 12, 13, 15, 14, 10, 15, 13, 15,
                12, 9, 13, 9, 10, 8, 15, 12, 11, 9, 10, 8, 11, 12, 13, 11, 9,
                12, 9, 8, 13, 13, 14, 15, 14, 10>>]
      [] seed = 42 /\ cities = 3 ->
           [prov |-> <<3, 3, 4>>,
            cats |-> <<4, 3, 5, 3, 5, 5, 4, 5, 5, 5, 4, 3, 5, 3, 3, 4, 3, 5, 5, 3, 3,
                4, 5, 3, 4, 5, 3, 4, 5, 5, 5, 4, 3, 4, 5, 5, 4, 5, 3, 5>>,
            rows |-> <<13, 10, 15, 15, 12, 15, 8, 8, 9, 10, 11, 10, 11, 12, 12, 12, 15,
                9, 11, 12, 14, 15, 9, 11, 10, 9, 11, 11, 15, 10, 15, 14, 8, 12,
                11, 15, 15, 13, 9, 14, 14, 13, 13, 10, 15, 15, 15, 10, 10, 12,
                9, 10, 11, 9, 13, 12, 13, 15, 14, 10, 15, 13, 15, 12, 9, 13, 9,
                10, 8, 15, 12, 11, 9, 10, 8, 11, 12, 13, 11, 9, 12, 9, 8, 13,
                13, 14, 15, 14, 10, 10, 13, 10, 8, 9, 12, 14, 8, 14, 8, 12, 10,
                11, 13, 8, 13, 8, 13, 11, 15, 10, 13, 13, 10, 12, 8, 11, 11, 15,
                11, 10, 11, 13, 13, 11, 8, 15, 9, 15, 15, 14, 9, 10, 15, 8, 15,
                10, 10, 12, 9, 8, 13, 8, 10, 13, 13, 14, 10, 12, 9, 12, 13, 15,
                12, 15, 9, 15, 12, 8, 12, 12, 15, 12, 10, 14, 14, 12>>]
      [] seed = 42 /\ cities = 4 ->
           [prov |-> <<3, 3, 4, 4>>,
            cats |-> <<4, 4, 3, 3, 4, 5, 5, 3, 4, 5, 5, 4, 3, 5, 3, 3, 4, 3, 5, 5, 3,
                3, 4, 5, 3, 4, 5, 3, 4, 5, 5, 5, 4, 3, 4, 5, 5, 4, 5, 3, 5, 3,
                3, 5, 5, 5, 5, 5, 4, 5, 4, 4, 4, 5, 5, 5>>,
            rows |-> <<11, 11, 10, 10, 15, 11, 15, 8, 14, 8, 9, 11, 8, 13, 14, 12, 15,
                9, 15, 8, 9, 13, 14, 12, 9, 11, 15, 8, 12, 11, 12, 8, 13, 10,
                15, 10, 14, 11, 13, 9, 14, 14, 13, 13, 10, 15, 15, 15, 10, 10,
                12, 9, 10, 11, 9, 13, 12, 13, 15, 14, 10, 15, 13, 15, 12, 9, 13,
                9, 10, 8, 15, 12, 11, 9, 10, 8, 11, 12, 13, 11, 9, 12, 9, 8, 13,
                13, 14, 15, 14, 10, 10, 13, 10, 8, 9, 12, 14, 8, 14, 8, 12, 10,
                11, 13, 8, 13, 8, 13, 11, 15, 10, 13, 13, 10, 12, 8, 11, 11, 15,
                11, 10, 11, 13, 13, 11, 8, 15, 9, 15, 15, 14, 9, 10, 15, 8, 15,
                10, 10, 12, 9, 8, 13, 8, 10, 13, 13, 14, 10, 12, 9, 12, 13, 15,
                12, 15, 9, 15, 12, 8, 12, 12, 15, 12, 10, 14, 14, 12, 14, 12,
                15, 12, 13, 10, 9, 15, 10, 15, 15, 12, 14, 11, 8, 13, 10, 8, 11,
                15, 15, 13, 8, 10, 14, 9, 15, 13, 11, 12, 15, 10, 11, 8, 8, 10,
                14, 9, 8, 10, 10, 13, 9, 9, 14, 11, 14, 11, 10, 10, 8, 10, 11,
                13, 8, 8, 13, 12, 12, 15, 13, 10, 14, 14, 13, 10, 9>>]
      [] cities = 0 -> [prov |-> <<>>, cats |-> <<>>, rows |-> <<>>]
\* CFG["cities"], CFG["n_months"] and the draws the seed determines
InitGenInputs ==
    \/ \* any cities and months, run with the committed seed or a small one
       /\ nCities \in 0..MaxCities
       /\ nMonths \in 0..MaxMonths
       /\ \E seed \in Seeds :
             /\ provDraws = RandintDraws(seed, nCities).prov
             /\ catDraws = RandintDraws(seed, nCities).cats
             /\ rowDraws = RandintDraws(seed, nCities).rows
    \/ \* any cities and months, any number of providers in each city, with
       \* the least or the most categories and rows at every draw
       /\ nCities \in 0..MaxCities
       /\ nMonths \in 0..MaxMonths
       /\ provDraws \in [1..nCities -> ProvPerCityMin..ProvPerCityMax]
       /\ catDraws \in {<<CatsMin>>, <<CatsMax>>}
       /\ rowDraws \in {<<RowsMin>>, <<RowsMax>>}
    \/ \* any category and row draws, for one city and one month
       /\ nCities = 1 /\ nMonths = 1
       /\ provDraws \in [1..1 -> ProvPerCityMin..ProvPerCityMax]
       /\ catDraws \in SeqsUpTo(CatsMin..CatsMax, 1, MaxPeriod)
       /\ rowDraws \in SeqsUpTo(RowsMin..RowsMax, 1, MaxPeriod)
\* data_gen.py is not running
NoGenInputs ==
    /\ nCities = 0 /\ nMonths = 0
    /\ provDraws = <<>> /\ catDraws = <<CatsMin>> /\ rowDraws = <<RowsMin>>

\* for city, lat, lon in CITIES:  for _ in range(random.randint(3, 4)):
EnterCity ==
    /\ gpc = "providers" /\ provLeft = 0 /\ cityIdx < nCities
    /\ cityIdx' = cityIdx + 1
    /\ provLeft' = Draw(provDraws)
    /\ provDraws' = Drawn(provDraws, 1)
    /\ UNCHANGED vizVars
    /\ UNCHANGED <<gpc, nCities, nMonths, providers, prov_id, records, monthIdx,
                   provIdx, catDraws, rowDraws, outLoc, outCharges, outKpi>>

\* faulty variant of NextProvId: the increment is missing
NextProvId_mut_stuck(p) == p
\* prov_id += 1
NextProvId(p) == p + 1
AddProvider ==
    /\ gpc = "providers" /\ provLeft > 0
    /\ providers' = Append(providers, [provider_id |-> prov_id, city |-> cityIdx])
    /\ prov_id' = NextProvId(prov_id)
    /\ provLeft' = provLeft - 1
    /\ UNCHANGED vizVars
    /\ UNCHANGED <<gpc, nCities, nMonths, cityIdx, records, monthIdx, provIdx,
                   provDraws, catDraws, rowDraws, outLoc, outCharges, outKpi>>

IdColumn(rows) == [i \in DOMAIN rows |-> rows[i].provider_id]
\* prov_df.to_csv(DATA_DIR / "provider_locations.csv", index=False)
WriteLoc ==
    /\ gpc = "providers" /\ provLeft = 0 /\ cityIdx = nCities
    /\ outLoc' = [written |-> TRUE, ids |-> IdColumn(providers)]
    /\ gpc' = "records"
    /\ monthIdx' = 0 /\ provIdx' = Len(providers)
    /\ UNCHANGED vizVars
    /\ UNCHANGED <<nCities, nMonths, providers, prov_id, cityIdx, provLeft, records,
                   provDraws, catDraws, rowDraws, outCharges, outKpi>>

\* for month in MONTHS:
NextMonth ==
    /\ gpc = "records" /\ provIdx = Len(providers)
    /\ monthIdx < nMonths
    /\ monthIdx' = monthIdx + 1
    /\ provIdx' = 0
    /\ UNCHANGED vizVars
    /\ UNCHANGED <<gpc, nCities, nMonths, providers, prov_id, cityIdx, provLeft,
                   records, provDraws, catDraws, rowDraws, outLoc, outCharges, outKpi>>

\* the row appended for provider p: p["provider_id"], ..., p["city"], ...
RowOf(p) == [provider_id |-> p.provider_id, city |-> p.city]
\* one iteration of  for p in providers:  with its two inner loops:
\* k = random.randint(3, 5) sampled categories, and for each of them
\* random.randint(8, 15) rows, all carrying the fields of p
AddProviderRows ==
    /\ gpc = "records" /\ monthIdx >= 1
    /\ provIdx < Len(providers)
    /\ provIdx' = provIdx + 1
    /\ LET k == Draw(catDraws)
           n == SumDraws(rowDraws, k)
       IN  /\ records' = records \o [j \in 1..n |-> RowOf(providers[provIdx + 1])]
           /\ catDraws' = Drawn(catDraws, 1)
           /\ rowDraws' = Drawn(rowDraws, k)
    /\ UNCHANGED vizVars
    /\ UNCHANGED <<gpc, nCities, nMonths, providers, prov_id, cityIdx, provLeft,
                   monthIdx, provDraws, outLoc, outCharges, outKpi>>

\* charges_df.to_csv(DATA_DIR / "charges.csv", index=False)
WriteCharges ==
    /\ gpc = "records" /\ provIdx = Len(providers)
    /\ monthIdx = nMonths
    /\ outCharges' = [written |-> TRUE, ids |-> IdColumn(records)]
    /\ gpc' = "kpi"
    /\ UNCHANGED vizVars
    /\ UNCHANGED <<nCities, nMonths, providers, prov_id, cityIdx, provLeft, records,
                   monthIdx, provIdx, provDraws, catDraws, rowDraws, outLoc, outKpi>>

\* json.dump({"average_charge": avg_charge, "state": CFG["state"]}, f)
WriteKpi ==
    /\ gpc = "kpi"
    /\ outKpi' = [written |-> TRUE, kpi |-> GenKpi]
    /\ gpc' = "done"
    /\ UNCHANGED vizVars
    /\ UNCHANGED <<nCities, nMonths, providers, prov_id, cityIdx, provLeft, records,
                   monthIdx, provIdx, provDraws, catDraws, rowDraws, outLoc, outCharges>>

\* ------------------------------------------------------------ specifications
\* one run of viz.py; data_gen.py is not running
Init ==
    /\ InitInputs /\ InitProgram
    /\ NoGenInputs /\ InitGenProgram
Next ==
    \/ CheckFiles \/ ReadCsv \/ DetectCharge \/ VerifyAndMerge
    \/ NormCity \/ NormLatLon \/ RenameProc \/ Coerce
    \/ BuildSankey \/ BuildTreemap \/ BuildHeatmap
    \/ ReadKpi \/ Assemble \/ WriteHtml
    \/ CallSavePng \/ PngStepOk \/ PngStepRaises \/ OpenBrowser
Spec == Init /\ [][Next]_vars

\* one run of data_gen.py; viz.py is not running
InitGen ==
    /\ InitGenInputs
    /\ InitGenProgram
    /\ DefaultArgs /\ DefaultCfg /\ DefaultKpi
    /\ fileCharges = FileOf(FALSE, <<>>, <<>>) /\ fileLoc = FileOf(FALSE, <<>>, <<>>)
    /\ InitProgram
NextGen ==
    \/ EnterCity \/ AddProvider \/ WriteLoc
    \/ NextMonth \/ AddProviderRows \/ WriteCharges \/ WriteKpi
SpecGen == InitGen /\ [][NextGen]_vars

\* ------------------------------------------------------------ properties
\* the statements of viz.py in program order
PcOrder ==
    <<"check_files", "read_csv", "detect_charge", "verify_provider_id", "norm_city",
      "norm_latlon", "rename_proc", "to_numeric", "fig_sankey", "fig_treemap",
      "fig_heatmap", "kpi", "assemble", "write_html", "call_save_png", "png_import",
      "png_start", "png_get", "png_script", "png_resize", "png_shot", "png_quit",
      "open_browser", "done">>
PcIndex(p) == CHOOSE i \in DOMAIN PcOrder : PcOrder[i] = p
\* the run is alive and has executed the statement at p
Past(p) == pc \in Range(PcOrder) /\ PcIndex(pc) > PcIndex(p)
MsgNoCharge == "No column containing the word 'charge' found."
MsgNoKey == "Both CSVs must contain provider_id for merging."
\* errors raised by statements after the city normalisation
LateErrors ==
    {"TypeError", "KeyError", "ValueError", "ImportError", "WebDriverException"}
\* the positions of a sequence of names whose name satisfies the claim's test
ChargePositions(cols) == {i \in DOMAIN cols : Contains(n_charge, Lower(cols[i]))}
\* the ways of writing a lower-case letter that differ only in case; the
\* dotted capital and the dotless small letter are cases of i
CaseVariants(c) ==
    {c} \cup {UpperChars[k] : k \in {j \in DOMAIN LowerChars : LowerChars[j] = c}}
        \cup (IF c = "i" THEN {ch_I_dot, ch_i_dotless} ELSE {})
SameButCase(s, name) ==
    Len(s) = Len(name) /\ \A i \in DOMAIN s : s[i] \in CaseVariants(name[i])
CityPositions(cols) ==
    {i \in DOMAIN cols :
        \E name \in {n_city, n_city \o sfx_x, n_city \o sfx_y} :
            SameButCase(cols[i], name)}
Positions(cols, c) == {i \in DOMAIN cols : cols[i] = c}

\* the rename of the charge column has been executed
ChargeRenamed ==
    \/ Past("detect_charge")
    \/ pc = "exited" /\ exitMsg = MsgNoKey
    \/ pc = "crashed" /\ exitMsg \in LateErrors
\* C1: once the charge column has been detected and renamed, the first column
\* of charges.csv (in column order) whose name contains 'charge', compared
\* case-insensitively, is named 'charge' and every other column has the name it
\* had in the file; when exactly one column matched, the only name that can
\* differ from the file's is that column's (it does not when the column was
\* already named 'charge') and exactly one column is named 'charge'.
C1_FirstChargeColumnRenamed ==
    ChargeRenamed =>
        LET in == fileCharges.cols
            M == ChargePositions(in)
        IN  /\ M # {}
            /\ Len(charges.cols) = Len(in)
            /\ charges.cols[Min(M)] = n_charge
            /\ \A j \in DOMAIN in : j # Min(M) => charges.cols[j] = in[j]
            /\ Cardinality(M) = 1 =>
                  /\ Cardinality(Positions(charges.cols, n_charge)) = 1
                  /\ {j \in DOMAIN in : charges.cols[j] # in[j]} \subseteq M
\* reached: Total_Charge was the only candidate and is now 'charge'
C1_Witness ==
    /\ pc = "verify_provider_id"
    /\ Positions(fileCharges.cols, n_Total_Charge) = {5}
    /\ Cardinality(ChargePositions(fileCharges.cols)) = 1
    /\ charges.cols[5] = n_charge

\* an input the script refuses
BadInput ==
    \/ ~fileCharges.exists
    \/ ~fileLoc.exists
    \/ ChargePositions(fileCharges.cols) = {}
\* C2: when charges.csv or provider_locations.csv is missing, or no column of
\* charges.csv has a name containing 'charge', the run can only be before or
\* at the failing check or terminated there with that check's message, and no
\* dashboard HTML has been written, no PNG capture attempted, no driver
\* started and no browser opened; until it has exited it can take a step.
C2_FailStop ==
    BadInput =>
        /\ pc \in {"check_files", "read_csv", "detect_charge", "exited"}
        /\ ~fileCharges.exists => pc \in {"check_files", "exited"}
        /\ ~fileLoc.exists => pc \in {"check_files", "exited"}
        /\ pc = "exited" =>
              exitMsg = (IF ~fileCharges.exists
                         THEN "Required file missing: charges.csv"
                         ELSE IF ~fileLoc.exists
                         THEN "Required file missing: provider_locations.csv"
                         ELSE MsgNoCharge)
        /\ pc # "exited" => ENABLED Next
        /\ ~htmlFile.written /\ ~pngTried /\ ~pngFile /\ drv = "none"
        /\ ~browserOpened
\* reached: both files exist, no column name contains 'charge', the run exited
C2_Witness ==
    /\ pc = "exited" /\ exitMsg = MsgNoCharge
    /\ fileCharges.exists /\ fileLoc.exists

\* the merge has been executed
Merged ==
    \/ Past("verify_provider_id")
    \/ pc = "crashed" /\ exitMsg \in LateErrors
\* C3 as claimed: after the merge, df has exactly as many rows as charges,
\* whatever the provider_id values of the two tables are.
C3_RowCountAlwaysPreserved ==
    Merged => Len(df.rows) = Len(charges.rows)
\* how many provider rows carry the key
MatchCount(key) == Cardinality({j \in DOMAIN loc.rows : loc.rows[j] = key})
\* C3 amended: after the merge every charges row occurs in df, in order, and
\* when no provider_id of a charges row occurs more than once in the provider
\* table (it may be missing from it) df has exactly as many rows as charges;
\* a charges row whose provider_id occurs k > 1 times in the provider table
\* occurs k times in df, any other charges row once.
C3_RowCountPreservedForUniqueKeys ==
    Merged =>
        /\ \A i \in DOMAIN charges.rows :
              Cardinality({k \in DOMAIN df.rows : df.rows[k].l = i})
                 = (IF MatchCount(charges.rows[i]) > 1
                    THEN MatchCount(charges.rows[i]) ELSE 1)
        /\ \A i \in DOMAIN charges.rows :
              \E k \in DOMAIN df.rows :
                 df.rows[k].l = i /\ df.rows[k].pid = charges.rows[i]
        /\ \A k \in DOMAIN df.rows :
              k > 1 => df.rows[k - 1].l <= df.rows[k].l
        /\ (\A i \in DOMAIN charges.rows : MatchCount(charges.rows[i]) <= 1)
              => Len(df.rows) = Len(charges.rows)
\* reached: a charges row whose provider is missing from the provider table,
\* another that has one, and the row count is that of charges
C3_Witness ==
    /\ Merged
    /\ Len(charges.rows) = 2 /\ Len(df.rows) = 2
    /\ df.rows[1].r # 0 /\ df.rows[2].r = 0

\* the figure keys of the chart cards, in page order
ChartKeys(cards) ==
    LET IsChart(c) == c.kind = "chart"
        charts == SelectSeq(cards, IsChart)
    IN  [i \in DOMAIN charts |-> charts[i].key]
\* C4 as claimed: the chart cards of the written dashboard are, in order, the
\* keys of CFG["figures"], one card per entry.
C4_OneCardPerFigureInOrder ==
    htmlFile.written => ChartKeys(htmlFile.cards) = figuresCfg

\* C5: once a statement of save_png has raised, exactly one warning naming the
\* error has been printed, the run is at the browser-opening statement or
\* past it (it did not die), the HTML file is still the one written, and
\* when the run is done the browser was opened exactly when the flag allows.
C5_PngFailureTolerated ==
    pngError # "" =>
        /\ warnings = <<"PNG not created: " \o Raises(pngError)>>
        /\ pc \in {"open_browser", "done"}
        /\ pc = "open_browser" => ENABLED OpenBrowser
        /\ htmlFile = [written |-> TRUE, cards |-> cards_html]
        /\ pc = "done" => browserOpened = ShouldOpenBrowser
\* reached: the window resize raised and the browser was opened afterwards
C5_Witness ==
    /\ pngError = "resize" /\ drv = "running"
    /\ pc = "done" /\ browserOpened /\ htmlFile.written

\* C6 as claimed: a PNG capture is attempted only with --png among the
\* arguments, and the browser is opened only without --no-browser.
C6_BothFlagsChecked ==
    /\ pngTried => "--png" \in argv
    /\ browserOpened => "--no-browser" \notin argv
\* C6 amended: the browser is opened only without --no-browser among the
\* arguments, and when --no-browser is absent a finished run of the script has
\* opened it; the PNG capture is attempted in every run that wrote the HTML,
\* with or without --png.
C6_OnlyNoBrowserChecked ==
    /\ browserOpened => "--no-browser" \notin argv
    /\ pc = "done" /\ isMain /\ "--no-browser" \notin argv => browserOpened
    /\ Past("call_save_png") => pngTried
    /\ pngTried => htmlFile.written
\* reached: a finished run without --png that tried the capture, and with
\* --no-browser that did not open the browser
C6_Witness ==
    /\ pc = "done" /\ isMain
    /\ argv = {"--no-browser"}
    /\ pngTried /\ ~browserOpened

\* C7 as claimed: when save_png has returned, no driver it started is still
\* running.
C7_DriverClosedOnReturn ==
    pc \in {"open_browser", "done"} => drv # "running"

\* the city normalisation has been executed
CityNormalised ==
    \/ Past("norm_city")
    \/ pc = "crashed" /\ exitMsg \in LateErrors
\* C8: after the city normalisation df has exactly one provider_city column:
\* the merged table's own when it had one; otherwise the first column of the
\* merged table whose whole name is city, city_x or city_y in any letter
\* case (the dotted capital I and the dotless small i are cases of i, as
\* they are for re.I), renamed; otherwise a new last column holding
\* 'Unknown City' in every row.
C8_ProviderCityAlwaysPresent ==
    CityNormalised =>
        LET m == Merge(charges, loc)
            at == Positions(df.cols, n_provider_city)
        IN  /\ Cardinality(at) = 1
            /\ IF Positions(m.cols, n_provider_city) # {}
               THEN at = Positions(m.cols, n_provider_city) /\ df.src = m.src
               ELSE IF CityPositions(m.cols) # {}
               THEN at = {Min(CityPositions(m.cols))} /\ df.src = m.src
               ELSE /\ at = {Len(m.cols) + 1}
                    /\ df.src = Append(m.src, <<"const", lit_Unknown_City>>)
\* reached: the generator's tables; city of charges.csv, merged as city_x, is
\* now provider_city
C8_Witness ==
    /\ pc = "done"
    /\ fileCharges.cols = GenChargesCols /\ fileLoc.cols = GenLocCols
    /\ df.cols[3] = n_provider_city /\ df.src[3] = <<"charges", n_city>>

\* id occurs exactly once in the id column ids
Resolves(id, ids) == Cardinality({i \in DOMAIN ids : ids[i] = id}) = 1
\* C9: in data_gen.py the provider_id of the i-th provider is i, so the ids
\* are the distinct integers 1..N; every row of records, and of charges.csv
\* once written, carries the provider_id of exactly one provider, and of
\* exactly one row of provider_locations.csv.
C9_ForeignKeysResolve ==
    /\ \A i \in DOMAIN providers : providers[i].provider_id = i
    /\ \A r \in DOMAIN records : Resolves(records[r].provider_id, IdColumn(providers))
    /\ outLoc.written => outLoc.ids = [i \in 1..Len(providers) |-> i]
    /\ outCharges.written =>
          /\ outLoc.written
          /\ outCharges.ids = IdColumn(records)
          /\ \A r \in DOMAIN outCharges.ids : Resolves(outCharges.ids[r], outLoc.ids)
\* reached: a finished run over two cities and two months; the first city
\* got three providers and the second four, numbered on from the first, and
\* each of the seven has rows of both months in charges.csv
C9_Witness ==
    /\ gpc = "done"
    /\ nCities = 2 /\ nMonths = 2
    /\ outLoc.ids = <<1, 2, 3, 4, 5, 6, 7>>
    /\ providers[3].city = 1 /\ providers[4].city = 2
    /\ Range(outCharges.ids) = 1..7
    /\ Len(outCharges.ids) = 2 * 7 * CatsMin * RowsMin

\* C10 as claimed: when kpi.json held a JSON object, the written dashboard
\* starts with a Key Metrics card that has one row per entry, and all other
\* cards are chart cards.
C10_KpiCardForEveryObject ==
    htmlFile.written /\ fileKpi.kind = "json" /\ fileKpi.top = "object" =>
        /\ Len(htmlFile.cards) >= 1
        /\ htmlFile.cards[1].kind = "kpi"
        /\ Len(htmlFile.cards[1].rows) = Len(fileKpi.entries)
        /\ \A i \in DOMAIN htmlFile.cards : i > 1 => htmlFile.cards[i].kind = "chart"

====
